---- MODULE Spec2Model ----
(***************************************************************************)
(* A model of the variant-sudoku solver: the grid (sudoku.rs), the         *)
(* backtracking solver with its three inference passes (solver.rs) and     *)
(* the Killer-cage and Quadruple-circle variants (variant/misc).           *)
(*                                                                         *)
(* A cell position is a pair <<row, col>> with row, col in 0..8.  A        *)
(* candidate list (Vec<u8>) is always kept in ascending order by the       *)
(* code (it is built by filtering 1..9 or copied from an ascending         *)
(* combination), so it is modelled as a set of digits that is iterated     *)
(* in ascending order.  A HashMap<(usize,usize),Vec<u8>> is a function     *)
(* whose DOMAIN is its key set.                                            *)
(***************************************************************************)
EXTENDS Integers, Sequences, FiniteSets, TLC

VARIABLES
    cells,      \* SudokuGrid.cells : Pos -> 0..9
    gposs,      \* SudokuGrid.possibilities
    variants,   \* SudokuGrid.variants (a sequence of variant records)
    poss,       \* Solver.possiblilities
    stack,      \* the active solve_recursive invocations that are in their loop
    steps,      \* the step counter of solve
    pc,         \* position of the program
    ret,        \* value returned by the solve_recursive invocation that just ended
    result,     \* outcome of Solver::new / Solver::solve / the last query
    cells0,     \* cell values when solve was called
    gposs0,     \* SudokuGrid.possibilities when solve was called
    query,      \* the read-only call made on the built grid, with its answer
    calls,      \* number of set_cell calls made by the caller that builds a grid
    legal       \* every set_cell call of the caller satisfied is_valid_move when made

vars == <<cells, gposs, variants, poss, stack, steps, pc, ret, result, cells0, gposs0,
          query, calls, legal>>

----------------------------------------------------------------------------
(* Bounds of the model *)

\* the step budget of solve (1_000_000 in solver.rs:24), scaled down so
\* that searches both within and beyond the budget occur
max_steps == 4

\* how many blank cells of a puzzle of the family may be given instead
MaxRefill == 1

\* how many set_cell calls a caller makes on a grid under construction
MaxCalls == 2

----------------------------------------------------------------------------
(* Basic sets *)

Idx == 0..8
Digits == 1..9
Pos == Idx \X Idx

\* row-major order of the nested loops `for r in 0..9 { for c in 0..9`
Ord(p) == (9 * p[1]) + p[2]

Min(S) == CHOOSE x \in S : \A y \in S : x <= y

RECURSIVE SumSeq(_)
SumSeq(s) == IF s = <<>> THEN 0 ELSE Head(s) + SumSeq(Tail(s))

Range(s) == {s[i] : i \in 1..Len(s)}

\* a HashMap without entries
EmptyMap == [p \in {} |-> {}]

----------------------------------------------------------------------------
(* SudokuGrid: classic rules *)

get_cell(g, row, col) == g[<<row, col>>]

used_in_col(g, col, num) == \E row \in 0..8 : get_cell(g, row, col) = num

used_in_row(g, row, num) == \E col \in 0..8 : get_cell(g, row, col) = num

used_in_subgrid(g, start_row, start_col, num) ==
    \E row \in 0..2, col \in 0..2 : get_cell(g, row + start_row, col + start_col) = num

\* is_classic_valid without the check of the box
is_classic_valid_no_box(g, row, col, num) ==
    /\ ~used_in_row(g, row, num)
    /\ ~used_in_col(g, col, num)

is_classic_valid(g, row, col, num) ==
    /\ ~used_in_row(g, row, num)
    /\ ~used_in_col(g, col, num)
    /\ ~used_in_subgrid(g, row - (row % 3), col - (col % 3), num)

\* a group of nine cells holds each of 1..9 once
is_valid_group(group) ==
    /\ \A i \in 1..9 : group[i] \in 1..9
    /\ \A i, j \in 1..9 : i # j => group[i] # group[j]

is_board_valid(g) ==
    /\ \A row \in 0..8 : is_valid_group([i \in 1..9 |-> g[<<row, i - 1>>]])
    /\ \A col \in 0..8 : is_valid_group([i \in 1..9 |-> g[<<i - 1, col>>]])
    /\ \A box_row \in 0..2, box_col \in 0..2 :
          is_valid_group([k \in 1..9 |->
              g[<<(box_row * 3) + ((k - 1) \div 3), (box_col * 3) + ((k - 1) % 3)>>]])

\* the digits the classic rules leave for an empty cell
get_standard_possibilities_for_cell(g, row, col) ==
    {v \in 1..9 : is_classic_valid(g, row, col, v)}

----------------------------------------------------------------------------
(* Variants.  A variant is a record                                        *)
(*   [kind, cells, required, is_anti, total, possible_values]              *)
(* kind "quad"   : QuadrupleCircle {cells, required, is_anti}              *)
(* kind "killer" : KillerCage {cells, total, possible_values}              *)
(* Fields a kind does not have are left empty.                             *)

RECURSIVE SumSet(_)
SumSet(S) == IF S = {} THEN 0 ELSE LET x == Min(S) IN x + SumSet(S \ {x})

\* the digits of every set of `size` distinct digits of `avail` that sums to target
ComboDigits(avail, size, target) ==
    UNION {S \in SUBSET avail : Cardinality(S) = size /\ SumSet(S) = target}

QuadrupleCircle_new(cs, req, anti) ==
    [kind |-> "quad", cells |-> cs, required |-> req, is_anti |-> anti,
     total |-> 0, possible_values |-> {}]

\* KillerCage::new with set_possible_values
KillerCage_new(cs, sum) ==
    [kind |-> "killer", cells |-> cs, required |-> <<>>, is_anti |-> FALSE,
     total |-> sum, possible_values |-> ComboDigits(1..9, Len(cs), sum)]

(* QuadrupleCircle *)

Quad_is_valid(q, g, row, col, value) ==
    IF <<row, col>> \notin Range(q.cells) THEN TRUE
    ELSE IF q.is_anti THEN value \notin Range(q.required)
    ELSE IF Len(q.required) = 4 /\ value \notin Range(q.required) THEN FALSE
    ELSE
      LET current == [i \in 1..Len(q.cells) |->
                        IF q.cells[i] = <<row, col>> THEN value ELSE g[q.cells[i]]]
          missing_required == SelectSeq(q.required, LAMBDA d : d \notin Range(current))
          unfilled_count == Cardinality({i \in 1..Len(current) : current[i] = 0})
      IN IF Len(missing_required) > unfilled_count THEN FALSE
         ELSE IF unfilled_count = 0 /\ missing_required # <<>> THEN FALSE
         ELSE TRUE

Quad_validate_solution(q, g) ==
    LET values == {g[q.cells[i]] : i \in 1..Len(q.cells)}
    IN IF 0 \in values THEN FALSE
       ELSE \A d \in Range(q.required) : d \in values

\* PossibilityResult: [ok |-> TRUE, map |-> ..] or [ok |-> FALSE, map |-> <<>>]
Quad_get_possibilities(q, g) ==
    LET keys == Range(q.cells)
        known_digits_in_circle == {g[p] : p \in {x \in keys : g[x] # 0}}
        empty_cell_count == Cardinality({p \in keys : g[p] = 0})
        missing_required_digits ==
            SelectSeq(q.required, LAMBDA req : req \notin known_digits_in_circle)
        insert_possibilities(values) ==
            [ok |-> TRUE, map |-> [p \in keys |-> IF g[p] # 0 THEN {g[p]} ELSE values]]
        Err == [ok |-> FALSE, map |-> EmptyMap]
    IN IF ~q.is_anti
       THEN IF empty_cell_count < Len(missing_required_digits) THEN Err
            ELSE IF empty_cell_count = Len(missing_required_digits)
                 THEN insert_possibilities(Range(missing_required_digits))
                 ELSE insert_possibilities(1..9)
       ELSE IF \E v \in known_digits_in_circle : v \in Range(q.required) THEN Err
            ELSE insert_possibilities({v \in 1..9 : v \notin Range(q.required)})

(* KillerCage *)

Killer_is_valid(k, g, row, col, value) ==
    IF <<row, col>> \notin Range(k.cells) THEN TRUE
    ELSE IF value \notin k.possible_values THEN FALSE
    ELSE IF \E i \in 1..Len(k.cells) :
               k.cells[i] # <<row, col>> /\ g[k.cells[i]] = value THEN FALSE
    ELSE
      LET empty_cells == Cardinality({i \in 1..Len(k.cells) :
                             g[k.cells[i]] = 0 /\ k.cells[i] # <<row, col>>})
          current_sum == SumSeq([i \in 1..Len(k.cells) |->
                             IF k.cells[i] = <<row, col>> THEN value ELSE g[k.cells[i]]])
      IN IF empty_cells = 0 THEN current_sum = k.total ELSE current_sum <= k.total

Killer_validate_solution(k, g) ==
    IF \E i \in 1..Len(k.cells) : g[k.cells[i]] = 0 THEN FALSE
    ELSE SumSeq([i \in 1..Len(k.cells) |-> g[k.cells[i]]]) = k.total

\* the (grid, row, col) form called by SudokuGrid::update_possibilities
Killer_get_possibilities(k, g, row, col) ==
    IF <<row, col>> \notin Range(k.cells) THEN EmptyMap
    ELSE
      LET filled == {i \in 1..Len(k.cells) : g[k.cells[i]] # 0}
          used == {g[k.cells[i]] : i \in filled}
          empty_cells == {k.cells[i] : i \in (1..Len(k.cells)) \ filled}
          current_sum == SumSeq([i \in 1..Len(k.cells) |-> g[k.cells[i]]])
          available == {d \in 1..9 : d \notin used}
          \* u8 saturating_sub
          target_sum == IF current_sum >= k.total THEN 0 ELSE k.total - current_sum
          n == Cardinality(empty_cells)
      IN IF empty_cells = {} THEN EmptyMap
         ELSE [p \in empty_cells |-> ComboDigits(available, n, target_sum)]

(* SudokuVariant dispatch *)

Variant_is_valid(v, g, row, col, value) ==
    IF v.kind = "quad" THEN Quad_is_valid(v, g, row, col, value)
    ELSE Killer_is_valid(v, g, row, col, value)

Variant_validate_solution(v, g) ==
    IF v.kind = "quad" THEN Quad_validate_solution(v, g)
    ELSE Killer_validate_solution(v, g)

constrained_cells(v) == Range(v.cells)

\* Variant::get_possibilities(grid) -> PossibilityResult, as the solver calls it
Variant_get_possibilities(v, g) == Quad_get_possibilities(v, g)

\* get_possibilities(grid, row, col) -> HashMap, as SudokuGrid::update_possibilities
\* calls it; a contradiction is an empty map there
Variant_get_possibilities_at(v, g, row, col) ==
    IF v.kind = "killer" THEN Killer_get_possibilities(v, g, row, col)
    ELSE LET res == Quad_get_possibilities(v, g)
         IN IF res.ok THEN res.map ELSE EmptyMap

----------------------------------------------------------------------------
(* SudokuGrid: mutation *)

\* SudokuGrid::empty().possibilities
AllPossibilities == [p \in Pos |-> 1..9]

is_valid_move(g, vs, row, col, num) ==
    IF ~is_classic_valid(g, row, col, num) THEN FALSE
    ELSE \A i \in 1..Len(vs) : Variant_is_valid(vs[i], g, row, col, num)

\* retain(|p| p != value) on the entries of the given cells
RemoveFrom(gp, targets, value) ==
    [p \in DOMAIN gp |-> IF p \in targets THEN gp[p] \ {value} ELSE gp[p]]

RECURSIVE ApplyVariants(_, _, _, _, _, _)
ApplyVariants(gp, g, vs, i, row, col) ==
    IF i > Len(vs) THEN gp
    ELSE IF <<row, col>> \in constrained_cells(vs[i])
         THEN LET vp == Variant_get_possibilities_at(vs[i], g, row, col)
              IN ApplyVariants([p \in DOMAIN gp |->
                                   IF p \in DOMAIN vp THEN gp[p] \cap vp[p] ELSE gp[p]],
                               g, vs, i + 1, row, col)
         ELSE ApplyVariants(gp, g, vs, i + 1, row, col)

\* SudokuGrid::update_possibilities without the test `c != col` of the row loop
Grid_update_possibilities_own(gp, g, vs, row, col, value) ==
    LET box_row == (row \div 3) * 3
        box_col == (col \div 3) * 3
        inRow == {<<row, c>> : c \in 0..8}
        inCol == {<<r, col>> : r \in (0..8) \ {row}}
        inBox == {<<r, c>> : r \in box_row..(box_row + 2), c \in box_col..(box_col + 2)}
                    \ {<<row, col>>}
    IN ApplyVariants(RemoveFrom(RemoveFrom(RemoveFrom(gp, inRow, value), inCol, value),
                                inBox, value),
                     g, vs, 1, row, col)

\* SudokuGrid::update_possibilities without the loop over the box
Grid_update_possibilities_no_box(gp, g, vs, row, col, value) ==
    LET inRow == {<<row, c>> : c \in (0..8) \ {col}}
        inCol == {<<r, col>> : r \in (0..8) \ {row}}
    IN ApplyVariants(RemoveFrom(RemoveFrom(gp, inRow, value), inCol, value),
                     g, vs, 1, row, col)

\* SudokuGrid::update_possibilities that gives the peers their digits back
\* when the cell is cleared
Grid_update_possibilities_refill(gp, g, vs, row, col, value) ==
    LET targets == {q \in Pos : q # <<row, col>> /\
                                  (q[1] = row \/ q[2] = col \/
                                   (q[1] \div 3 = row \div 3 /\ q[2] \div 3 = col \div 3))}
    IN IF value = 0
       THEN ApplyVariants([p \in DOMAIN gp |-> IF p \in targets THEN 1..9 ELSE gp[p]],
                          g, vs, 1, row, col)
       ELSE ApplyVariants(RemoveFrom(gp, targets, value), g, vs, 1, row, col)

\* SudokuGrid::update_possibilities(row, col, value); g is the grid after the write
Grid_update_possibilities(gp, g, vs, row, col, value) ==
    LET box_row == (row \div 3) * 3
        box_col == (col \div 3) * 3
        inRow == {<<row, c>> : c \in (0..8) \ {col}}
        inCol == {<<r, col>> : r \in (0..8) \ {row}}
        inBox == {<<r, c>> : r \in box_row..(box_row + 2), c \in box_col..(box_col + 2)}
                    \ {<<row, col>>}
    IN ApplyVariants(RemoveFrom(RemoveFrom(RemoveFrom(gp, inRow, value), inCol, value),
                                inBox, value),
                     g, vs, 1, row, col)

\* SudokuGrid::set_cell: the new cells and the new possibilities
set_cell(g, gp, vs, row, col, value) ==
    LET g1 == [g EXCEPT ![<<row, col>>] = value]
        own == IF value = 0 THEN 1..9 ELSE {value}
        gp1 == [p \in (DOMAIN gp) \cup {<<row, col>>} |->
                   IF p = <<row, col>> THEN own ELSE gp[p]]
    IN [cells |-> g1, possibilities |-> Grid_update_possibilities(gp1, g1, vs, row, col, value)]

\* SudokuGrid::get_possibilities(row, col)
Grid_get_possibilities(g, gp, row, col) ==
    IF <<row, col>> \in DOMAIN gp THEN gp[<<row, col>>] ELSE {get_cell(g, row, col)}

----------------------------------------------------------------------------
(* Solver: candidate computation *)

\* the candidates of one empty cell: classic candidates retained against
\* every variant's map
RECURSIVE Retained(_, _, _, _, _)
Retained(ps, g, vs, i, p) ==
    IF i > Len(vs) THEN ps
    ELSE LET var_poss == Variant_get_possibilities(vs[i], g).map
         IN Retained(IF p \in DOMAIN var_poss THEN ps \cap var_poss[p] ELSE ps,
                     g, vs, i + 1, p)

CellPoss(g, vs, p) ==
    Retained(get_standard_possibilities_for_cell(g, p[1], p[2]), g, vs, 1, p)

\* the visit of empty cell p returns Err: a variant raised a contradiction
\* (the `?`) or no candidate is left
CellFails(g, vs, p) ==
    /\ g[p] = 0
    /\ \/ \E i \in 1..Len(vs) : ~Variant_get_possibilities(vs[i], g).ok
       \/ CellPoss(g, vs, p) = {}

\* get_all_possibilities without the `?` and without the is_empty test
get_all_possibilities_lenient(g, vs) ==
    [ok |-> TRUE, map |-> [p \in {x \in Pos : g[x] = 0} |-> CellPoss(g, vs, p)]]

\* Solver::get_all_possibilities
get_all_possibilities(g, vs) ==
    IF \E p \in Pos : CellFails(g, vs, p)
    THEN [ok |-> FALSE, map |-> EmptyMap]
    ELSE [ok |-> TRUE, map |-> [p \in {x \in Pos : g[x] = 0} |-> CellPoss(g, vs, p)]]

\* update_possibilities that drops the entries of filled cells and recomputes
\* nothing
update_possibilities_stale(m, g, vs) ==
    [ok |-> TRUE, map |-> [p \in {x \in DOMAIN m : g[x] = 0} |-> m[p]]]

\* update_possibilities without `self.possiblilities.remove(&(r, c))`: the
\* entry of a filled cell stays
update_possibilities_keep_filled(m, g, vs) ==
    LET failing == {p \in Pos : CellFails(g, vs, p)}
    IN IF failing = {}
       THEN [ok |-> TRUE,
             map |-> [p \in DOMAIN m \cup {x \in Pos : g[x] = 0} |->
                         IF g[p] = 0 THEN CellPoss(g, vs, p) ELSE m[p]]]
       ELSE LET stop == Min({Ord(p) : p \in failing})
                keys == {p \in Pos : Ord(p) < stop /\ g[p] = 0}
                          \cup {p \in DOMAIN m : Ord(p) >= stop}
            IN [ok |-> FALSE,
                map |-> [p \in keys |-> IF Ord(p) < stop THEN CellPoss(g, vs, p) ELSE m[p]]]

\* Solver::update_possibilities: the map is rewritten cell by cell in row-major
\* order; at the first failing cell the method returns Err and the entries
\* of the cells not yet visited stay as they were
update_possibilities(m, g, vs) ==
    LET failing == {p \in Pos : CellFails(g, vs, p)}
    IN IF failing = {}
       THEN [ok |-> TRUE, map |-> [p \in {x \in Pos : g[x] = 0} |-> CellPoss(g, vs, p)]]
       ELSE LET stop == Min({Ord(p) : p \in failing})
                keys == {p \in Pos : Ord(p) < stop /\ g[p] = 0}
                          \cup {p \in DOMAIN m : Ord(p) >= stop}
            IN [ok |-> FALSE,
                map |-> [p \in keys |-> IF Ord(p) < stop THEN CellPoss(g, vs, p) ELSE m[p]]]

\* the orders in which the entries of a HashMap with the keys S can be visited
RECURSIVE Orders(_)
Orders(S) ==
    IF S = {} THEN {<< >>}
    ELSE UNION {{<<x>> \o o : o \in Orders(S \ {x})} : x \in S}

NoEmptyCellsResult == [kind |-> "NoEmptyCells", cell |-> << >>, candidates |-> {}]

DeadEndResult == [kind |-> "DeadEnd", cell |-> << >>, candidates |-> {}]

\* the loop of find_most_constrained_cell over the entries from position i,
\* with best_cell (<< >> for None) and min_options as they stand
RECURSIVE ScanFrom(_, _, _, _, _)
ScanFrom(m, order, i, best_cell, min_options) ==
    IF i > Len(order)
    THEN IF best_cell = << >> THEN NoEmptyCellsResult
         ELSE [kind |-> "Cell", cell |-> best_cell, candidates |-> m[best_cell]]
    ELSE LET p == order[i]
         IN IF m[p] = {} THEN DeadEndResult
            ELSE IF Cardinality(m[p]) < min_options
                 THEN ScanFrom(m, order, i + 1, p, Cardinality(m[p]))
                 ELSE ScanFrom(m, order, i + 1, best_cell, min_options)

\* find_most_constrained_cell that takes an empty list for the shortest list
find_most_constrained_cell_no_dead_end(m, order) ==
    IF order = << >> THEN NoEmptyCellsResult
    ELSE LET best == CHOOSE i \in 1..Len(order) :
                        /\ \A j \in 1..Len(order) :
                              Cardinality(m[order[i]]) <= Cardinality(m[order[j]])
                        /\ \A j \in 1..(i - 1) :
                              Cardinality(m[order[j]]) > Cardinality(m[order[i]])
         IN [kind |-> "Cell", cell |-> order[best], candidates |-> m[order[best]]]

\* Solver::find_most_constrained_cell when the map is visited in `order`
find_most_constrained_cell(m, order) == ScanFrom(m, order, 1, << >>, 10)

\* find_most_constrained_cell: the HashMap is visited in an arbitrary order
\* and the first cell with the strictly smallest count is kept, so any cell
\* with the smallest count can be the one returned
DeadEnd(m) == \E p \in DOMAIN m : m[p] = {}

NoEmptyCells(m) == DOMAIN m = {}

BestCells(m) ==
    {p \in DOMAIN m : \A q \in DOMAIN m : Cardinality(m[p]) <= Cardinality(m[q])}

\* validate_solution without the loop over the variants
validate_solution_board_only(g, vs) == is_board_valid(g)

\* Solver::validate_solution
validate_solution(g, vs) ==
    IF ~is_board_valid(g) THEN FALSE
    ELSE \A i \in 1..Len(vs) : Variant_validate_solution(vs[i], g)

----------------------------------------------------------------------------
(* Solver: inference passes.  A pass leaves a map without entries as it is. *)

\* get_all_boxes: box k (0..8) is at box row k / 3, box column k % 3
BoxCells(k) ==
    {<<((k \div 3) * 3) + dr, ((k % 3) * 3) + dc>> : dr \in 0..2, dc \in 0..2}

\* get_all_units: rows 1..9, columns 10..18, boxes 19..27
UnitCells(u) ==
    IF u <= 9 THEN {<<u - 1, c>> : c \in 0..8}
    ELSE IF u <= 18 THEN {<<r, u - 10>> : r \in 0..8}
    ELSE BoxCells(u - 19)

\* apply_naked_subsets_to_unit without the test `!cells.contains(&(r, c))`
apply_naked_subsets_to_unit_all(m, unit) ==
    LET cell_poss == {p \in unit \cap DOMAIN m : Cardinality(m[p]) \in 2..4}
        all_candidates(combo) == UNION {m[p] : p \in combo}
        found == {combo \in SUBSET cell_poss :
                     /\ Cardinality(combo) \in 2..4
                     /\ Cardinality(all_candidates(combo)) = Cardinality(combo)}
    IN [p \in DOMAIN m |->
          IF p \in unit
          THEN m[p] \ UNION {all_candidates(combo) : combo \in found}
          ELSE m[p]]

\* apply_naked_subsets_to_unit.  cell_poss is read once, before the loops;
\* every combination of 2..4 of its cells whose candidates number exactly
\* as many digits as cells removes those digits from the other cells of
\* the unit.  Which combinations qualify depends on cell_poss only, so the
\* removals are taken together.
apply_naked_subsets_to_unit(m, unit) ==
    LET cell_poss == {p \in unit \cap DOMAIN m : Cardinality(m[p]) \in 2..4}
        all_candidates(combo) == UNION {m[p] : p \in combo}
        found == {combo \in SUBSET cell_poss :
                     /\ Cardinality(combo) \in 2..4
                     /\ Cardinality(all_candidates(combo)) = Cardinality(combo)}
    IN [p \in DOMAIN m |->
          IF p \in unit
          THEN m[p] \ UNION {all_candidates(combo) : combo \in {x \in found : p \notin x}}
          ELSE m[p]]

RECURSIVE NakedFrom(_, _)
NakedFrom(m, u) ==
    IF u > 27 \/ m = EmptyMap THEN m ELSE NakedFrom(apply_naked_subsets_to_unit(m, UnitCells(u)), u + 1)

apply_naked_subsets(m) == NakedFrom(m, 1)

\* remove_possibility_from_row without the test `!allowed_cols.contains(&col)`
remove_possibility_from_row_all(m, value, row, allowed_cols) ==
    [p \in DOMAIN m |-> IF p[1] = row THEN m[p] \ {value} ELSE m[p]]

\* Solver::remove_possibility_from_row
remove_possibility_from_row(m, value, row, allowed_cols) ==
    [p \in DOMAIN m |->
        IF p[1] = row /\ p[2] \notin allowed_cols THEN m[p] \ {value} ELSE m[p]]

\* Solver::remove_possibility_from_col
remove_possibility_from_col(m, value, col, allowed_rows) ==
    [p \in DOMAIN m |->
        IF p[2] = col /\ p[1] \notin allowed_rows THEN m[p] \ {value} ELSE m[p]]

\* the body of the loops of apply_pointing_pairs for one value and one box
PointingStep(m, value, a_box) ==
    LET candidates == {p \in a_box \cap DOMAIN m : value \in m[p]}
        first == CHOOSE p \in candidates : \A q \in candidates : Ord(p) <= Ord(q)
        all_in_one_row == \A p \in candidates : p[1] = first[1]
        all_in_one_col == \A p \in candidates : p[2] = first[2]
        m1 == IF all_in_one_row
              THEN remove_possibility_from_row(m, value, first[1],
                                               {p[2] : p \in candidates})
              ELSE m
    IN IF candidates = {} THEN m
       ELSE IF all_in_one_col
            THEN remove_possibility_from_col(m1, value, first[2], {p[1] : p \in candidates})
            ELSE m1

\* k counts the (value, box) pairs: value = k / 9 + 1, box = k % 9
RECURSIVE PointingFrom(_, _)
PointingFrom(m, k) ==
    IF k >= 81 \/ m = EmptyMap THEN m
    ELSE PointingFrom(PointingStep(m, (k \div 9) + 1, BoxCells(k % 9)), k + 1)

apply_pointing_pairs(m) == PointingFrom(m, 0)

\* the combinations of `size` digits of D, in the lexicographic order of
\* (1u8..=9).combinations(size)
RECURSIVE CombSeq(_, _)
CombSeq(D, size) ==
    IF size = 0 THEN << {} >>
    ELSE IF D = {} THEN << >>
    ELSE LET d == Min(D)
             with == CombSeq(D \ {d}, size - 1)
         IN [i \in 1..Len(with) |-> with[i] \cup {d}] \o CombSeq(D \ {d}, size)

\* HiddenStep without the test that each of the cells admits every digit
HiddenStep_any(m, unit, combo) ==
    LET cells_with_combo == {p \in unit \cap DOMAIN m : m[p] \cap combo # {}}
    IN IF Cardinality(cells_with_combo) = Cardinality(combo)
       THEN [p \in DOMAIN m |-> IF p \in cells_with_combo THEN combo ELSE m[p]]
       ELSE m

\* the body of the loop of apply_hidden_subsets_to_unit for one combination
HiddenStep(m, unit, combo) ==
    LET cells_with_combo == {p \in unit \cap DOMAIN m : m[p] \cap combo # {}}
    IN IF /\ Cardinality(cells_with_combo) = Cardinality(combo)
          /\ \A p \in cells_with_combo : combo \subseteq m[p]
       THEN [p \in DOMAIN m |-> IF p \in cells_with_combo THEN combo ELSE m[p]]
       ELSE m

RECURSIVE HiddenCombos(_, _, _, _)
HiddenCombos(m, unit, combos, i) ==
    IF i > Len(combos) \/ m = EmptyMap THEN m
    ELSE HiddenCombos(HiddenStep(m, unit, combos[i]), unit, combos, i + 1)

\* apply_hidden_subsets_to_unit.  A combination with a digit that no cell of
\* the unit admits never passes the test, and the loop only removes digits,
\* so the combinations of the digits present at entry are the ones visited.
apply_hidden_subsets_to_unit(m, unit, subset_size) ==
    LET present == UNION {m[p] : p \in unit \cap DOMAIN m}
    IN HiddenCombos(m, unit, CombSeq(present, subset_size), 1)

RECURSIVE HiddenFrom(_, _)
HiddenFrom(m, u) ==
    IF u > 27 \/ m = EmptyMap THEN m
    ELSE HiddenFrom(apply_hidden_subsets_to_unit(
                        apply_hidden_subsets_to_unit(m, UnitCells(u), 2), UnitCells(u), 3),
                    u + 1)

apply_hidden_pairs(m) == HiddenFrom(m, 1)

\* the three passes, in the order of solve_recursive
ApplyPasses(m) == apply_hidden_pairs(apply_pointing_pairs(apply_naked_subsets(m)))

----------------------------------------------------------------------------
(* The puzzles the solver is run on *)

\* a solved grid (the solution of solver.rs tests::solve::solves_with_naked_pairs)
Solved ==
    << <<5, 1, 7, 6, 9, 8, 2, 3, 4>>,
       <<2, 8, 9, 1, 3, 4, 7, 5, 6>>,
       <<3, 4, 6, 2, 7, 5, 8, 9, 1>>,
       <<6, 7, 2, 8, 4, 9, 3, 1, 5>>,
       <<1, 3, 8, 5, 2, 6, 9, 4, 7>>,
       <<9, 5, 4, 7, 1, 3, 6, 8, 2>>,
       <<4, 9, 5, 3, 6, 2, 1, 7, 8>>,
       <<7, 2, 3, 4, 8, 1, 5, 6, 9>>,
       <<8, 6, 1, 9, 5, 7, 4, 2, 3>> >>

SolvedAt(p) == Solved[p[1] + 1][p[2] + 1]

\* blank cells: a rectangle that the digits 1 and 4 fill in two ways
Rectangle == {<<0, 1>>, <<0, 8>>, <<2, 1>>, <<2, 8>>}

\* blank cells: two puzzles with one completion each whose search runs the
\* inference passes on pairs of candidates
SixBlanks == {<<1, 3>>, <<1, 6>>, <<2, 4>>, <<2, 8>>, <<5, 3>>, <<5, 4>>}

SevenBlanks == {<<0, 3>>, <<0, 7>>, <<1, 3>>, <<1, 4>>, <<1, 8>>, <<6, 3>>, <<6, 4>>}

\* two blanks inside the circle: a circle that needs a 3 is satisfiable by
\* count until one of them is filled
CornerBlanks == {<<0, 1>>, <<1, 1>>}

\* blank cells of a grid that has no completion: with the 7 given at (5,8)
\* the inference passes empty a candidate list after one placement
DeadEndBlanks == {<<2, 3>>, <<4, 4>>, <<4, 8>>, <<5, 3>>, <<5, 5>>}

\* the given that differs from the solved grid in that puzzle
DeadEndGiven == [p \in {<<5, 8>>} |-> 7]

\* the circle on the corner shared by (0,0), (0,1), (1,0) and (1,1)
Circle == << <<0, 0>>, <<0, 1>>, <<1, 0>>, <<1, 1>> >>

\* the variant lists attached to the rectangle puzzle
VariantLists ==
    { << >>,
      << QuadrupleCircle_new(Circle, <<1>>, FALSE) >>,
      << QuadrupleCircle_new(Circle, <<3>>, FALSE) >>,
      << QuadrupleCircle_new(Circle, <<4>>, TRUE) >>,
      << QuadrupleCircle_new(Circle, <<9>>, TRUE) >>,
      << QuadrupleCircle_new(Circle, <<5>>, TRUE) >>,
      << QuadrupleCircle_new(Circle, <<1, 8>>, FALSE),
         QuadrupleCircle_new(Circle, <<2>>, FALSE) >> }

\* the puzzles: blank cells of the solved grid, and the variants attached
Puzzles ==
    {[blank |-> Rectangle, vs |-> vs, changed |-> EmptyMap] : vs \in VariantLists}
    \cup {[blank |-> SixBlanks, vs |-> << >>, changed |-> EmptyMap],
          [blank |-> SixBlanks, vs |-> << QuadrupleCircle_new(Circle, <<4>>, TRUE) >>,
           changed |-> EmptyMap],
          [blank |-> SevenBlanks, vs |-> << >>, changed |-> EmptyMap],
          [blank |-> CornerBlanks, vs |-> << QuadrupleCircle_new(Circle, <<3>>, FALSE) >>,
           changed |-> EmptyMap],
          [blank |-> DeadEndBlanks, vs |-> << >>, changed |-> DeadEndGiven]}

NoQuery == [op |-> "none", row |-> 0, col |-> 0, value |-> 0, variant |-> 0, answer |-> FALSE,
     map |-> EmptyMap]

\* parse_file: the givens are written with set_cell in row-major order on an
\* empty grid, then the variants are added
RECURSIVE PlaceGivens(_, _, _)
PlaceGivens(grid, givens, k) ==
    IF k > 80 \/ grid.possibilities = EmptyMap THEN grid
    ELSE LET p == <<k \div 9, k % 9>>
         IN IF givens[p] = 0 THEN PlaceGivens(grid, givens, k + 1)
            ELSE PlaceGivens(set_cell(grid.cells, grid.possibilities, << >>,
                                      p[1], p[2], givens[p]),
                             givens, k + 1)

EmptyGrid == [cells |-> [p \in Pos |-> 0], possibilities |-> AllPossibilities]

Init ==
    \E puzzle \in Puzzles :
    \E refill \in SUBSET puzzle.blank :
       /\ Cardinality(refill) <= MaxRefill
       /\ LET givens == [p \in Pos |->
                            IF p \in puzzle.blank \ refill THEN 0
                            ELSE IF p \in DOMAIN puzzle.changed THEN puzzle.changed[p]
                            ELSE SolvedAt(p)]
              grid == PlaceGivens(EmptyGrid, givens, 0)
          IN /\ cells = grid.cells
             /\ gposs = grid.possibilities
             /\ cells0 = grid.cells
             /\ gposs0 = grid.possibilities
       /\ variants = puzzle.vs
       /\ poss = EmptyMap
       /\ stack = << >>
       /\ steps = 0
       /\ pc = "new"
       /\ ret = FALSE
       /\ result = "none"
       /\ query = NoQuery
       /\ calls = 0
    /\ legal = TRUE

----------------------------------------------------------------------------
(* Solver::new and Solver::solve *)

\* Solver::new
New ==
    /\ pc = "new"
    /\ LET res == get_all_possibilities(cells, variants)
       IN IF res.ok
          THEN /\ poss' = res.map
               /\ pc' = "ready"
               /\ result' = result
          ELSE /\ poss' = poss
               /\ pc' = "done"
               /\ result' = "contradiction"
    /\ UNCHANGED <<cells, gposs, variants, stack, steps, ret, cells0, gposs0, query, calls, legal>>

\* Solver::solve up to its call of solve_recursive
Solve ==
    /\ pc = "ready"
    /\ steps' = 0
    /\ pc' = "call"
    /\ UNCHANGED <<cells, gposs, variants, poss, stack, ret, result, cells0, gposs0, query, calls, legal>>

Top == stack[Len(stack)]

\* the comparison one step late
BudgetExceeded_late(n) == n > max_steps + 1

\* `*steps > max_steps`
BudgetExceeded(n) == n > max_steps

\* solve_recursive from its entry to the start of the loop over the
\* candidates, or to its return when it does not branch
Enter ==
    /\ pc = "call"
    /\ steps' = steps + 1
    /\ IF BudgetExceeded(steps + 1)
       THEN /\ ret' = FALSE
            /\ pc' = "ret"
            /\ stack' = stack
       ELSE \E order \in Orders(DOMAIN poss) :
            LET next == find_most_constrained_cell(poss, order)
            IN IF next.kind = "DeadEnd"
               THEN /\ ret' = FALSE
                    /\ pc' = "ret"
                    /\ stack' = stack
               ELSE IF next.kind = "NoEmptyCells"
               THEN /\ ret' = validate_solution(cells, variants)
                    /\ pc' = "ret"
                    /\ stack' = stack
               ELSE /\ stack' = Append(stack, [row |-> next.cell[1], col |-> next.cell[2],
                                               candidates |-> next.candidates,
                                               rest |-> next.candidates, num |-> 0,
                                               old_poss |-> poss])
                    /\ pc' = "loop"
                    /\ ret' = ret
    /\ UNCHANGED <<cells, gposs, variants, poss, result, cells0, gposs0, query, calls, legal>>

\* one iteration of the loop up to the recursive call: set_cell,
\* update_possibilities and, when that succeeded, the three passes
Place ==
    /\ pc = "loop"
    /\ Top.rest # {}
    /\ LET num == Min(Top.rest)
           grid == set_cell(cells, gposs, variants, Top.row, Top.col, num)
           upd == update_possibilities(poss, grid.cells, variants)
       IN /\ cells' = grid.cells
          /\ gposs' = grid.possibilities
          /\ stack' = [stack EXCEPT ![Len(stack)].num = num,
                                    ![Len(stack)].rest = Top.rest \ {num}]
          /\ IF upd.ok
             THEN /\ poss' = ApplyPasses(upd.map)
                  /\ pc' = "call"
             ELSE /\ poss' = upd.map
                  /\ pc' = "back"
    /\ UNCHANGED <<variants, steps, ret, result, cells0, gposs0, query, calls, legal>>

\* the backtrack without `self.possiblilities = old_poss.clone()`
Backtrack_keep_map ==
    /\ pc = "back"
    /\ LET grid == set_cell(cells, gposs, variants, Top.row, Top.col, 0)
       IN /\ cells' = grid.cells
          /\ gposs' = grid.possibilities
    /\ pc' = "loop"
    /\ UNCHANGED <<variants, poss, stack, steps, ret, result, cells0, gposs0, query, calls,
                   legal>>

\* the backtrack at the end of an iteration
Backtrack ==
    /\ pc = "back"
    /\ LET grid == set_cell(cells, gposs, variants, Top.row, Top.col, 0)
       IN /\ cells' = grid.cells
          /\ gposs' = grid.possibilities
    /\ poss' = Top.old_poss
    /\ pc' = "loop"
    /\ UNCHANGED <<variants, stack, steps, ret, result, cells0, gposs0, query, calls, legal>>

\* the loop is over: no digit led to a solution
Exhausted ==
    /\ pc = "loop"
    /\ Top.rest = {}
    /\ stack' = SubSeq(stack, 1, Len(stack) - 1)
    /\ ret' = FALSE
    /\ pc' = "ret"
    /\ UNCHANGED <<cells, gposs, variants, poss, steps, result, cells0, gposs0, query, calls, legal>>

\* an invocation has returned `ret` to its caller: solve, or the loop of the
\* invocation below it on the stack
Return ==
    /\ pc = "ret"
    /\ IF stack = << >>
       THEN /\ pc' = "done"
            /\ result' = IF ret THEN "true" ELSE "false"
            /\ stack' = stack
       ELSE IF ret
       THEN /\ pc' = "ret"
            /\ result' = result
            /\ stack' = SubSeq(stack, 1, Len(stack) - 1)
       ELSE /\ pc' = "back"
            /\ result' = result
            /\ stack' = stack
    /\ UNCHANGED <<cells, gposs, variants, poss, steps, ret, cells0, gposs0, query, calls, legal>>

Next == New \/ Solve \/ Enter \/ Place \/ Backtrack \/ Exhausted \/ Return

Spec == Init /\ [][Next]_vars

\* The one thread of solve runs until solve returns: weak fairness of Next.
\* Next is enabled exactly when pc # "done" and every step of Next changes
\* vars, so WF_vars(Next) is written out as: the run reaches "done" or takes
\* steps for ever.
SpecLive == Spec /\ ([]<>(pc = "done") \/ []<><<TRUE>>_vars)

----------------------------------------------------------------------------
(* A caller that builds a grid: SudokuGrid::empty, then set_cell and         *)
(* add_variant in any order, and last one read-only call on what was built  *)

\* the cells and digits the caller uses
GridCells == {<<0, 0>>, <<1, 1>>, <<0, 4>>}

GridDigits == 0..2

\* cages over two boxes, and circles on the corner of (0,0)..(1,1)
GridVariants ==
    { KillerCage_new(<< <<1, 1>>, <<0, 4>> >>, 3),
      KillerCage_new(<< <<1, 1>>, <<0, 4>> >>, 4),
      QuadrupleCircle_new(Circle, <<2>>, TRUE) }

\* how many variants the caller attaches
MaxVariants == 1

InitGrid ==
    /\ cells = EmptyGrid.cells
    /\ gposs = EmptyGrid.possibilities
    /\ cells0 = EmptyGrid.cells
    /\ gposs0 = EmptyGrid.possibilities
    /\ variants = << >>
    /\ poss = EmptyMap
    /\ stack = << >>
    /\ steps = 0
    /\ pc = "grid"
    /\ ret = FALSE
    /\ result = "none"
    /\ query = NoQuery
    /\ calls = 0
    /\ legal = TRUE

\* SudokuGrid::set_cell
SetCell ==
    /\ pc = "grid"
    /\ calls < MaxCalls
    /\ \E p \in GridCells, value \in GridDigits :
          LET grid == set_cell(cells, gposs, variants, p[1], p[2], value)
          IN /\ cells' = grid.cells
             /\ gposs' = grid.possibilities
             /\ query' = NoQuery
             /\ legal' = (legal /\ is_valid_move(cells, variants, p[1], p[2], value))
    /\ calls' = calls + 1
    /\ UNCHANGED <<variants, poss, stack, steps, pc, ret, result, cells0, gposs0>>

\* SudokuGrid::add_variant
AddVariant ==
    /\ pc = "grid"
    /\ Len(variants) < MaxVariants
    /\ \E v \in GridVariants : variants' = Append(variants, v)
    /\ query' = NoQuery
    /\ UNCHANGED <<cells, gposs, poss, stack, steps, pc, ret, result, cells0, gposs0, calls, legal>>

\* SudokuGrid::is_valid_move
AskValidMove ==
    /\ pc = "grid"
    /\ \E p \in GridCells, value \in GridDigits \ {0} :
          query' = [NoQuery EXCEPT !.op = "is_valid_move", !.row = p[1], !.col = p[2],
                                   !.value = value,
                                   !.answer = is_valid_move(cells, variants, p[1], p[2], value)]
    /\ pc' = "asked"
    /\ UNCHANGED <<cells, gposs, variants, poss, stack, steps, ret, result, cells0,
                   gposs0, calls, legal>>

\* SudokuVariant::validate_solution of the variant at index i
AskValidate ==
    /\ pc = "grid"
    /\ \E i \in 1..Len(variants) :
          query' = [NoQuery EXCEPT !.op = "validate_solution", !.variant = i,
                                   !.answer = Variant_validate_solution(variants[i], cells)]
    /\ pc' = "asked"
    /\ UNCHANGED <<cells, gposs, variants, poss, stack, steps, ret, result, cells0,
                   gposs0, calls, legal>>

\* SudokuVariant::get_possibilities(grid, row, col) of the variant at index i
AskPossibilities ==
    /\ pc = "grid"
    /\ \E i \in 1..Len(variants), p \in GridCells :
          query' = [NoQuery EXCEPT !.op = "get_possibilities", !.variant = i,
                                   !.row = p[1], !.col = p[2],
                                   !.map = Variant_get_possibilities_at(variants[i], cells,
                                                                        p[1], p[2])]
    /\ pc' = "asked"
    /\ UNCHANGED <<cells, gposs, variants, poss, stack, steps, ret, result, cells0,
                   gposs0, calls, legal>>

\* SudokuGrid::get_possibilities(row, col)
AskCandidates ==
    /\ pc = "grid"
    /\ \E p \in GridCells :
          query' = [NoQuery EXCEPT !.op = "candidates", !.row = p[1], !.col = p[2],
                                   !.map = [x \in {p} |->
                                              Grid_get_possibilities(cells, gposs, p[1], p[2])]]
    /\ pc' = "asked"
    /\ UNCHANGED <<cells, gposs, variants, poss, stack, steps, ret, result, cells0,
                   gposs0, calls, legal>>

NextGrid ==
    SetCell \/ AddVariant \/ AskValidMove \/ AskValidate \/ AskPossibilities \/ AskCandidates

SpecGrid == InitGrid /\ [][NextGrid]_vars

----------------------------------------------------------------------------
(* A test of an inference pass, as in solver.rs tests::apply_naked_subsets:  *)
(* Solver::new on a grid, candidate lists overwritten through                *)
(* `possiblilities.entry(..).and_modify(..)`, then one pass                  *)

\* blank cells of the grid of the tests: four cells of row 0, three of them
\* in box 0, and a cell of column 0 in box 3
PassBlanks == {<<0, 0>>, <<0, 1>>, <<0, 2>>, <<0, 3>>, <<4, 0>>}

\* the lists the test writes
PassLists == {{1}, {1, 5}, {5, 7}, {1, 5, 7}, {1, 5, 6, 7}}

\* how many entries the test overwrites
MaxEntries == 3

Passes == {"apply_naked_subsets", "apply_pointing_pairs", "apply_hidden_pairs"}

InitPass ==
    /\ LET givens == [p \in Pos |-> IF p \in PassBlanks THEN 0 ELSE SolvedAt(p)]
           grid == PlaceGivens(EmptyGrid, givens, 0)
       IN /\ cells = grid.cells
          /\ gposs = grid.possibilities
          /\ cells0 = grid.cells
          /\ gposs0 = grid.possibilities
    /\ variants = << >>
    /\ poss = EmptyMap
    /\ stack = << >>
    /\ steps = 0
    /\ pc = "new"
    /\ ret = FALSE
    /\ result = "none"
    /\ query = NoQuery
    /\ calls = 0
    /\ legal = TRUE

\* `solver.possiblilities.entry((r, c)).and_modify(|v| *v = list)`
SetEntry ==
    /\ pc = "ready"
    /\ calls < MaxEntries
    /\ \E p \in DOMAIN poss :
       \E list \in PassLists :
          poss' = [poss EXCEPT ![p] = list]
    /\ calls' = calls + 1
    /\ UNCHANGED <<cells, gposs, variants, stack, steps, pc, ret, result, cells0, gposs0,
                   query, legal>>

\* one call of a pass; query keeps the name of the pass and the map it was
\* called on
ApplyPass ==
    /\ pc = "ready"
    /\ \E pass \in Passes :
          /\ poss' = CASE pass = "apply_naked_subsets" -> apply_naked_subsets(poss)
                        [] pass = "apply_pointing_pairs" -> apply_pointing_pairs(poss)
                        [] pass = "apply_hidden_pairs" -> apply_hidden_pairs(poss)
          /\ query' = [NoQuery EXCEPT !.op = pass, !.map = poss]
    /\ pc' = "passed"
    /\ UNCHANGED <<cells, gposs, variants, stack, steps, ret, result, cells0, gposs0, calls,
                   legal>>

NextPass == New \/ SetEntry \/ ApplyPass

SpecPass == InitPass /\ [][NextPass]_vars

----------------------------------------------------------------------------
(* The line and dot variants (variant/line/thermometer.rs, variant/dot).     *)
(* Their get_possibilities(&grid) returns a PossibilityResult, modelled as   *)
(*   [ok |-> TRUE,  map, cell |-> NoCell, panic |-> FALSE]   Ok(map)         *)
(*   [ok |-> FALSE, map |-> EmptyMap, cell, panic |-> FALSE] NoPossibilities *)
(*   [ok |-> FALSE, map |-> EmptyMap, cell, panic |-> TRUE]  the thread      *)
(*                  panicked on an arithmetic overflow at that cell          *)

NoCell == <<9, 9>>

Ok(map) == [ok |-> TRUE, map |-> map, cell |-> NoCell, panic |-> FALSE]

NoPossibilities(cell) == [ok |-> FALSE, map |-> EmptyMap, cell |-> cell, panic |-> FALSE]

Panicked(cell) == [ok |-> FALSE, map |-> EmptyMap, cell |-> cell, panic |-> TRUE]

Thermometer_new(cs) == [cells |-> cs, length |-> Len(cs)]

\* a - b on u8: below zero the build with overflow checks panics (-1 here)
\* and the build without them wraps around
SubU8(a, b, wraps) ==
    IF a >= b THEN a - b
    ELSE IF wraps THEN ((a - b) + 256) % 256
    ELSE -1

\* the bounds of the empty index i, from the nearest known index on each side;
\* indices count from 0 as in the source
Thermometer_min_val(t, g, i) ==
    LET before == {idx \in 0..(i - 1) : g[t.cells[idx + 1]] # 0}
    IN IF before = {} THEN 1 + i
       ELSE LET idx == CHOOSE x \in before : \A y \in before : y <= x
            IN g[t.cells[idx + 1]] + (i - idx)

Thermometer_max_val(t, g, i, wraps) ==
    LET after == {idx \in (i + 1)..(t.length - 1) : g[t.cells[idx + 1]] # 0}
    IN IF after = {} THEN SubU8(9, t.length - i - 1, wraps)
       ELSE LET idx == Min(after)
            IN SubU8(g[t.cells[idx + 1]], idx - i, wraps)

\* the loop of Thermometer::get_possibilities from index i on
RECURSIVE Thermometer_from(_, _, _, _, _)
Thermometer_from(t, g, i, acc, wraps) ==
    IF i >= t.length THEN Ok(acc)
    ELSE LET p == t.cells[i + 1]
             min_val == Thermometer_min_val(t, g, i)
             max_val == Thermometer_max_val(t, g, i, wraps)
             put(vals) == [q \in (DOMAIN acc) \cup {p} |-> IF q = p THEN vals ELSE acc[q]]
         IN IF g[p] # 0 THEN Thermometer_from(t, g, i + 1, put({g[p]}), wraps)
            ELSE IF max_val < 0 THEN Panicked(p)
            ELSE IF min_val <= max_val
                 THEN Thermometer_from(t, g, i + 1, put(min_val..max_val), wraps)
                 ELSE NoPossibilities(p)

Thermometer_get_possibilities(t, g, wraps) == Thermometer_from(t, g, 0, EmptyMap, wraps)

KropkiDot_new(cs, colour) ==
    [cells |-> <<cs[1], cs[2]>>, colour |-> IF colour = "black" THEN "black" ELSE "white"]

KropkiDot_get_possibilities(k, g) ==
    LET val1 == g[k.cells[1]]
        val2 == g[k.cells[2]]
        known_value == IF val1 = 0 THEN val2 ELSE val1
        other == IF val1 = 0 THEN k.cells[1] ELSE k.cells[2]
        pushed == IF k.colour = "white"
                THEN (IF known_value > 1 THEN {known_value - 1} ELSE {})
                        \cup (IF known_value < 9 THEN {known_value + 1} ELSE {})
                ELSE (IF known_value % 2 = 0 THEN {known_value \div 2} ELSE {})
                        \cup (IF known_value * 2 < 9 THEN {known_value * 2} ELSE {})
    IN IF val1 = 0 /\ val2 = 0 THEN Ok([p \in Range(k.cells) |-> 1..9])
       ELSE IF val1 # 0 /\ val2 # 0
            THEN Ok([p \in Range(k.cells) |-> IF p = k.cells[2] THEN {val2} ELSE {val1}])
       ELSE IF pushed = {} THEN NoPossibilities(other)
       ELSE Ok([p \in Range(k.cells) |-> IF p = other THEN pushed ELSE {known_value}])

XVDot_new(cs, xv_flavour) ==
    [cells |-> <<cs[1], cs[2]>>, flavour |-> IF xv_flavour = "x" THEN "X" ELSE "V"]

\* XVDot::get_possibilities without the test `known_value == 5` of the X dot
XVDot_get_possibilities_no_five(xv, g) ==
    LET val1 == g[xv.cells[1]]
        val2 == g[xv.cells[2]]
        known_value == IF val1 = 0 THEN val2 ELSE val1
        other == IF val1 = 0 THEN xv.cells[1] ELSE xv.cells[2]
    IN IF val1 = 0 /\ val2 = 0
       THEN Ok([p \in Range(xv.cells) |-> IF xv.flavour = "X" THEN 1..9 ELSE 1..4])
       ELSE IF val1 # 0 /\ val2 # 0
            THEN Ok([p \in Range(xv.cells) |-> IF p = xv.cells[2] THEN {val2} ELSE {val1}])
       ELSE IF xv.flavour = "V"
            THEN IF 5 - known_value < 1 THEN NoPossibilities(other)
                 ELSE Ok([p \in Range(xv.cells) |->
                             IF p = other THEN {5 - known_value} ELSE {known_value}])
       ELSE Ok([p \in Range(xv.cells) |->
                   IF p = other THEN {10 - known_value} ELSE {known_value}])

XVDot_get_possibilities(xv, g) ==
    LET val1 == g[xv.cells[1]]
        val2 == g[xv.cells[2]]
        known_value == IF val1 = 0 THEN val2 ELSE val1
        other == IF val1 = 0 THEN xv.cells[1] ELSE xv.cells[2]
    IN IF val1 = 0 /\ val2 = 0
       THEN Ok([p \in Range(xv.cells) |-> IF xv.flavour = "X" THEN 1..9 ELSE 1..4])
       ELSE IF val1 # 0 /\ val2 # 0
            THEN Ok([p \in Range(xv.cells) |-> IF p = xv.cells[2] THEN {val2} ELSE {val1}])
       ELSE IF xv.flavour = "V"
            THEN IF 5 - known_value < 1 THEN NoPossibilities(other)
                 ELSE Ok([p \in Range(xv.cells) |->
                             IF p = other THEN {5 - known_value} ELSE {known_value}])
       ELSE IF known_value = 5 THEN NoPossibilities(other)
       ELSE Ok([p \in Range(xv.cells) |->
                   IF p = other THEN {10 - known_value} ELSE {known_value}])

----------------------------------------------------------------------------
(* A test of a variant, as in thermometer.rs tests: SudokuGrid::empty,       *)
(* set_cell on empty cells of the variant, then get_possibilities(&grid)     *)

\* create_thermometer()
ThermoCells == << <<0, 1>>, <<0, 2>>, <<0, 3>>, <<0, 4>> >>

TestThermometer == Thermometer_new(ThermoCells)

\* the dots lie on the first two cells of the thermometer
DotCells == << <<0, 1>>, <<0, 2>> >>

KropkiDots == << KropkiDot_new(DotCells, "white"), KropkiDot_new(DotCells, "black") >>

XVDots == << XVDot_new(DotCells, "x"), XVDot_new(DotCells, "v") >>

InitVariant ==
    /\ cells = EmptyGrid.cells
    /\ gposs = EmptyGrid.possibilities
    /\ cells0 = EmptyGrid.cells
    /\ gposs0 = EmptyGrid.possibilities
    /\ variants = << >>
    /\ poss = EmptyMap
    /\ stack = << >>
    /\ steps = 0
    /\ pc = "variant"
    /\ ret = FALSE
    /\ result = "none"
    /\ query = NoQuery
    /\ calls = 0
    /\ legal = TRUE

\* grid.set_cell(r, c, v) of a test, on an empty cell of the variant
TestSetCell ==
    /\ pc = "variant"
    /\ calls < MaxCalls
    /\ \E p \in Range(ThermoCells), value \in 1..9 :
          /\ cells[p] = 0
          /\ LET grid == set_cell(cells, gposs, variants, p[1], p[2], value)
             IN /\ cells' = grid.cells
                /\ gposs' = grid.possibilities
    /\ calls' = calls + 1
    /\ UNCHANGED <<variants, poss, stack, steps, pc, ret, result, cells0, gposs0, query, legal>>

\* the result of a call, kept in query: answer is is_ok(), (row, col) the
\* cell of the contradiction, value is 1 when the call panicked
Returned(op, i, res) ==
    [op |-> op, row |-> res.cell[1], col |-> res.cell[2],
     value |-> IF res.panic THEN 1 ELSE 0, variant |-> i, answer |-> res.ok, map |-> res.map]

\* thermometer.get_possibilities(&grid), in a build with or without
\* overflow checks
AskThermometer ==
    /\ pc = "variant"
    /\ \E wraps \in BOOLEAN :
          query' = Returned("Thermometer", 1,
                            Thermometer_get_possibilities(TestThermometer, cells, wraps))
    /\ pc' = "told"
    /\ UNCHANGED <<cells, gposs, variants, poss, stack, steps, ret, result, cells0,
                   gposs0, calls, legal>>

AskKropkiDot ==
    /\ pc = "variant"
    /\ \E i \in 1..Len(KropkiDots) :
          query' = Returned("KropkiDot", i, KropkiDot_get_possibilities(KropkiDots[i], cells))
    /\ pc' = "told"
    /\ UNCHANGED <<cells, gposs, variants, poss, stack, steps, ret, result, cells0,
                   gposs0, calls, legal>>

AskXVDot ==
    /\ pc = "variant"
    /\ \E i \in 1..Len(XVDots) :
          query' = Returned("XVDot", i, XVDot_get_possibilities(XVDots[i], cells))
    /\ pc' = "told"
    /\ UNCHANGED <<cells, gposs, variants, poss, stack, steps, ret, result, cells0,
                   gposs0, calls, legal>>

NextVariant == TestSetCell \/ AskThermometer \/ AskKropkiDot \/ AskXVDot

SpecVariant == InitVariant /\ [][NextVariant]_vars

----------------------------------------------------------------------------
(* The server (main.rs): three requests on the shared AppState.grid, each    *)
(* handled by its own task.  cells, gposs and variants are the grid inside   *)
(* the RwLock; poss, stack, steps, ret, result and pc belong to the solver   *)
(* of solve_handler (pc is "idle" while no solver exists); cells0 and gposs0 *)
(* are the grid as the last writer left it when it released the lock; query  *)
(* holds the lock and the position of every request:                         *)
(*   [writers, readers, at, args, seen]                                      *)

Requests == 1..3

\* the handler each request is routed to
Handler == <<"solve", "sudoku", "set_cell">>

\* the grids the server starts with: the rectangle, and the grid without
\* completion
ServerPuzzles ==
    {[blank |-> Rectangle, vs |-> << >>, changed |-> EmptyMap],
     [blank |-> DeadEndBlanks, vs |-> << >>, changed |-> DeadEndGiven]}

\* Path((row, col, value)) of the set_cell requests
ServerCells == {<<0, 8>>, <<4, 4>>}

ServerDigits == {1, 4}

NoArgs == [row |-> 0, col |-> 0, value |-> 0]

InitServer ==
    \E puzzle \in ServerPuzzles :
       /\ LET givens == [p \in Pos |->
                            IF p \in puzzle.blank THEN 0
                            ELSE IF p \in DOMAIN puzzle.changed THEN puzzle.changed[p]
                            ELSE SolvedAt(p)]
              grid == PlaceGivens(EmptyGrid, givens, 0)
          IN /\ cells = grid.cells
             /\ gposs = grid.possibilities
             /\ cells0 = grid.cells
             /\ gposs0 = grid.possibilities
       /\ variants = puzzle.vs
       /\ poss = EmptyMap
       /\ stack = << >>
       /\ steps = 0
       /\ pc = "idle"
       /\ ret = FALSE
       /\ result = "none"
       /\ query = [writers |-> {}, readers |-> {}, at |-> [r \in Requests |-> "start"],
                   args |-> NoArgs, seen |-> [r \in Requests |-> << >>]]
       /\ calls = 0
       /\ legal = TRUE

\* RwLock::read is granted whatever the lock holds
CanRead_any(q) == TRUE

\* RwLock::read is granted while no task holds the write guard
CanRead(q) == q.writers = {}

\* RwLock::write is granted while no task holds any guard
CanWrite(q) == q.writers = {} /\ q.readers = {}

\* a request reaches its handler and awaits the lock
Arrive ==
    /\ \E r \in Requests :
          /\ query.at[r] = "start"
          /\ IF Handler[r] = "set_cell"
             THEN \E p \in ServerCells, value \in ServerDigits :
                     query' = [query EXCEPT !.at[r] = "waiting",
                                            !.args = [row |-> p[1], col |-> p[2],
                                                      value |-> value]]
             ELSE query' = [query EXCEPT !.at[r] = "waiting"]
    /\ UNCHANGED <<cells, gposs, variants, poss, stack, steps, pc, ret, result, cells0,
                   gposs0, calls, legal>>

\* sudoku_handler: state.grid.read().await
ReadLock ==
    /\ \E r \in Requests :
          /\ Handler[r] = "sudoku"
          /\ query.at[r] = "waiting"
          /\ CanRead(query)
          /\ query' = [query EXCEPT !.at[r] = "reading", !.readers = @ \cup {r}]
    /\ UNCHANGED <<cells, gposs, variants, poss, stack, steps, pc, ret, result, cells0,
                   gposs0, calls, legal>>

\* sudoku_handler: Json(grid.clone()), and the guard is dropped
ReadReply ==
    /\ \E r \in Requests :
          /\ Handler[r] = "sudoku"
          /\ query.at[r] = "reading"
          /\ query' = [query EXCEPT !.at[r] = "done", !.readers = @ \ {r},
                                    !.seen[r] = cells]
    /\ UNCHANGED <<cells, gposs, variants, poss, stack, steps, pc, ret, result, cells0,
                   gposs0, calls, legal>>

\* solve_handler: state.grid.write().await; the solver is about to be built
SolveLock ==
    /\ pc = "idle"
    /\ \E r \in Requests :
          /\ Handler[r] = "solve"
          /\ query.at[r] = "waiting"
          /\ CanWrite(query)
          /\ query' = [query EXCEPT !.at[r] = "solving", !.writers = @ \cup {r}]
    /\ pc' = "new"
    /\ UNCHANGED <<cells, gposs, variants, poss, stack, steps, ret, result, cells0,
                   gposs0, calls, legal>>

\* solve_handler: the answer after solve returned, the grid on true and 422
\* otherwise; the solver and the guard are dropped
SolveReply ==
    /\ pc = "done"
    /\ \E r \in Requests :
          /\ Handler[r] = "solve"
          /\ query.at[r] = "solving"
          /\ query' = [query EXCEPT !.at[r] = "done", !.writers = @ \ {r},
                                    !.seen[r] = IF result = "true" THEN cells ELSE << >>]
    /\ pc' = "idle"
    /\ poss' = EmptyMap
    /\ stack' = << >>
    /\ steps' = 0
    /\ ret' = FALSE
    /\ result' = "none"
    /\ cells0' = cells
    /\ gposs0' = gposs
    /\ UNCHANGED <<cells, gposs, variants, calls, legal>>

\* set_cell_handler: state.grid.write().await
SetLock ==
    /\ \E r \in Requests :
          /\ Handler[r] = "set_cell"
          /\ query.at[r] = "waiting"
          /\ CanWrite(query)
          /\ query' = [query EXCEPT !.at[r] = "validating", !.writers = @ \cup {r}]
    /\ UNCHANGED <<cells, gposs, variants, poss, stack, steps, pc, ret, result, cells0,
                   gposs0, calls, legal>>

\* set_cell_handler: is_valid_move; on false the handler returns 400 and
\* drops the guard; seen keeps the grid the move was validated against
SetValidate ==
    /\ \E r \in Requests :
          /\ Handler[r] = "set_cell"
          /\ query.at[r] = "validating"
          /\ IF is_valid_move(cells, variants, query.args.row, query.args.col,
                              query.args.value)
             THEN query' = [query EXCEPT !.at[r] = "setting", !.seen[r] = cells]
             ELSE query' = [query EXCEPT !.at[r] = "done", !.writers = @ \ {r}]
    /\ UNCHANGED <<cells, gposs, variants, poss, stack, steps, pc, ret, result, cells0,
                   gposs0, calls, legal>>

\* set_cell_handler: grid.set_cell, the answer, and the guard is dropped
SetApply ==
    /\ \E r \in Requests :
          /\ Handler[r] = "set_cell"
          /\ query.at[r] = "setting"
          /\ LET grid == set_cell(cells, gposs, variants, query.args.row, query.args.col,
                                  query.args.value)
             IN /\ cells' = grid.cells
                /\ gposs' = grid.possibilities
                /\ cells0' = grid.cells
                /\ gposs0' = grid.possibilities
          /\ query' = [query EXCEPT !.at[r] = "done", !.writers = @ \ {r}]
    /\ calls' = calls + 1
    /\ UNCHANGED <<variants, poss, stack, steps, pc, ret, result, legal>>

NextServer ==
    \/ Arrive \/ ReadLock \/ ReadReply \/ SolveLock \/ SolveReply
    \/ SetLock \/ SetValidate \/ SetApply
    \/ New \/ Solve \/ Enter \/ Place \/ Backtrack \/ Exhausted \/ Return

SpecServer == InitServer /\ [][NextServer]_vars

----------------------------------------------------------------------------
(* Vocabulary of the properties: the rules of the puzzle, stated on their   *)
(* own and not through the program's functions                              *)

SameBox(p, q) == (p[1] \div 3 = q[1] \div 3) /\ (p[2] \div 3 = q[2] \div 3)

Peers(p) == {q \in Pos : q # p /\ (q[1] = p[1] \/ q[2] = p[2] \/ SameBox(p, q))}

Empties(g) == {p \in Pos : g[p] = 0}

FullyAssigned(g) == \A p \in Pos : g[p] \in 1..9

\* the rule of a variant on a fully assigned grid
VariantRule(v, g) ==
    LET held == {g[v.cells[i]] : i \in 1..Len(v.cells)}
    IN IF v.kind = "quad"
       THEN IF v.is_anti THEN \A d \in Range(v.required) : d \notin held
            ELSE \A d \in Range(v.required) : d \in held
       ELSE /\ SumSeq([i \in 1..Len(v.cells) |-> g[v.cells[i]]]) = v.total
            /\ \A i, j \in 1..Len(v.cells) : i # j => g[v.cells[i]] # g[v.cells[j]]

\* the nine rows, nine columns and nine boxes as sets of cells
Houses ==
    {{<<r, c>> : c \in 0..8} : r \in 0..8}
    \cup {{<<r, c>> : r \in 0..8} : c \in 0..8}
    \cup {{p \in Pos : p[1] \div 3 = a /\ p[2] \div 3 = b} : a \in 0..2, b \in 0..2}

\* no digit twice in a row, column or box
NoRepeat(g) ==
    \A H \in Houses : \A p \in H : g[p] # 0 => \A q \in H \ {p} : g[q] # g[p]

\* the fully assigned grids that extend g and respect the classic rule
RECURSIVE ClassicCompletions(_)
ClassicCompletions(g) ==
    IF Empties(g) = {} THEN IF NoRepeat(g) THEN {g} ELSE {}
    ELSE LET p == CHOOSE x \in Empties(g) : \A y \in Empties(g) : Ord(x) <= Ord(y)
         IN UNION {ClassicCompletions([g EXCEPT ![p] = v]) :
                      v \in {d \in 1..9 : \A q \in Peers(p) : g[q] # d}}

\* those that also respect the rule of every variant
Completions(g, vs) ==
    {s \in ClassicCompletions(g) : \A i \in 1..Len(vs) : VariantRule(vs[i], s)}

----------------------------------------------------------------------------
(* Properties *)

\* C1: when solve returns true the grid is fully assigned, is_board_valid
\* holds and validate_solution holds for every attached variant
SolveSound ==
    (pc = "done" /\ result = "true") =>
        /\ FullyAssigned(cells)
        /\ is_board_valid(cells)
        /\ \A i \in 1..Len(variants) : Variant_validate_solution(variants[i], cells)

SolveSoundWitness ==
    pc = "done" /\ result = "true" /\ variants # << >> /\ cells # cells0

\* C2: when solve returns false the cell values and the grid's candidate map
\* (SudokuGrid.possibilities) are what they were before the call
SolveRestores ==
    (pc = "done" /\ result = "false") => (cells = cells0 /\ gposs = gposs0)

CandidatesComplete ==
    (pc = "ready" \/ pc = "call") =>
        \A s \in Completions(cells, variants) :
            \A p \in Empties(cells) : p \in DOMAIN poss /\ s[p] \in poss[p]

\* a placement was made, a completion exists and the passes removed a digit
CandidatesCompleteWitness ==
    /\ pc = "call"
    /\ stack # << >>
    /\ Completions(cells, variants) # {}
    /\ \E p \in DOMAIN poss : poss[p] # CellPoss(cells, variants, p)

\* C5: every invocation of solve_recursive is counted; the invocation that
\* takes the counter beyond max_steps returns false without placing a digit,
\* and from then on every invocation returns false and so does solve
BudgetEnforced ==
    [][/\ (pc = "call" => steps' = steps + 1)
       /\ (pc # "call" => steps' = steps \/ (pc = "ready" /\ steps' = 0))
       /\ (pc = "call" /\ steps + 1 > max_steps) =>
             (pc' = "ret" /\ ret' = FALSE /\ cells' = cells /\ stack' = stack)
       /\ (steps' > max_steps /\ pc' = "ret") => ret' = FALSE
       /\ (steps' > max_steps /\ pc' = "done") => result' = "false"]_vars

BudgetEnforcedWitness ==
    pc = "done" /\ steps > max_steps + 1 /\ result = "false"

\* C6: along a branch the candidate set of a cell that stays empty never
\* grows: after a placement with its passes it is a subset of what it was
\* before the placement
CandidatesMonotone ==
    [][(pc = "loop" /\ pc' = "call") =>
          \A p \in DOMAIN poss' : p \in DOMAIN poss /\ poss'[p] \subseteq poss[p]]_vars

\* C6 as amended: after a placement with its passes, the candidate set of
\* every cell that is still empty is a subset of the classic-and-variant
\* candidates of the cell on the grid after the placement, which is what
\* Solver::update_possibilities recomputes; a digit that the passes removed
\* at an earlier depth may be back
CandidatesWithinRecomputed ==
    [][(pc = "loop" /\ pc' = "call") =>
          \A p \in DOMAIN poss' :
              cells'[p] = 0 /\ poss'[p] \subseteq CellPoss(cells', variants, p)]_vars

\* a placement deeper on a branch after which a cell has a digit that it did
\* not have before the placement
CandidatesWithinRecomputedWitness ==
    /\ pc = "call"
    /\ Len(stack) >= 2
    /\ \E p \in DOMAIN poss : ~(poss[p] \subseteq Top.old_poss[p])

\* C7: applying the three passes again, with no placement in between, leaves
\* the candidate map as the first application left it
PassesIdempotent ==
    (pc = "call" /\ stack # << >>) => ApplyPasses(poss) = poss

\* C7 as amended: applying the three passes again never adds a key or a
\* digit; it may remove further digits
SecondPassesOnlyRemove ==
    (pc = "call" /\ stack # << >>) =>
        LET again == ApplyPasses(poss)
        IN /\ DOMAIN again = DOMAIN poss
           /\ \A p \in DOMAIN poss : again[p] \subseteq poss[p]

\* the second application removes something
SecondPassesOnlyRemoveWitness ==
    /\ pc = "call"
    /\ stack # << >>
    /\ ApplyPasses(poss) # poss

KillerValidateExact ==
    (query.op = "validate_solution" /\ variants[query.variant].kind = "killer") =>
        LET k == variants[query.variant]
        IN query.answer <=>
              /\ \A i \in 1..Len(k.cells) : cells[k.cells[i]] # 0
              /\ SumSeq([i \in 1..Len(k.cells) |-> cells[k.cells[i]]]) = k.total
              /\ \A i, j \in 1..Len(k.cells) : i # j => cells[k.cells[i]] # cells[k.cells[j]]

\* C10: on a fully assigned grid validate_solution of an anti circle is true
\* exactly when none of its digits is in its four cells, and of a normal
\* circle exactly when each of its digits is in its four cells
QuadValidateExact ==
    FullyAssigned(cells) =>
        \A i \in 1..Len(variants) :
            variants[i].kind = "quad" =>
                (Quad_validate_solution(variants[i], cells) <=> VariantRule(variants[i], cells))
\* C11: get_possibilities never returns a successful map in which a
\* constrained cell has an empty digit list; a cell without a permitted digit
\* makes the result a contradiction
NoEmptyListReturned ==
    query.op = "get_possibilities" =>
        \A p \in DOMAIN query.map : query.map[p] # {}
\* C12: after any sequence of set_cell calls no empty cell has an empty digit
\* list stored in the grid's possibilities map
GridNoEmptyList ==
    (pc = "grid" \/ pc = "asked") =>
        \A p \in DOMAIN gposs : cells[p] = 0 => gposs[p] # {}
\* the initial candidates of an empty cell: the digits no peer holds,
\* intersected with what every variant permits for the cell
InitialCandidates(p) ==
    {d \in 1..9 :
        /\ \A q \in Peers(p) : cells[q] # d
        /\ \A i \in 1..Len(variants) :
              LET r == Variant_get_possibilities(variants[i], cells)
              IN r.ok /\ (p \in DOMAIN r.map => d \in r.map[p])}

InitialContradiction == \E p \in Empties(cells) : InitialCandidates(p) = {}

\* C13: when the initial candidate computation raises a contradiction or
\* leaves an empty cell without a candidate, Solver::new returns the
\* contradiction and no cell value has changed
NewReportsContradiction ==
    [][(pc = "new" /\ InitialContradiction) =>
          (pc' = "done" /\ result' = "contradiction" /\ cells' = cells)]_vars

NewReportsContradictionWitness ==
    /\ pc = "done"
    /\ result = "contradiction"
    /\ InitialContradiction
    /\ cells = cells0
\* C14: two runs of solve on equal grids choose the same cell among the cells
\* tied for the fewest candidates: the possibility map leaves the choice of
\* find_most_constrained_cell no alternative
ChoiceDetermined ==
    [][(pc = "call" /\ pc' = "loop") =>
          LET chosen == <<stack'[Len(stack')].row, stack'[Len(stack')].col>>
          IN \A p \in DOMAIN poss :
                p # chosen => Cardinality(poss[p]) > Cardinality(poss[chosen])]_vars
SearchKeepsClassic ==
    [][(cells' # cells /\ NoRepeat(cells0)) =>
          /\ NoRepeat(cells')
          /\ \A p \in Pos :
                (cells'[p] # cells[p] /\ cells'[p] # 0) =>
                    \A q \in Peers(p) : cells[q] # cells'[p]]_vars

\* a speculative placement that is about to be backtracked
SearchKeepsClassicWitness ==
    /\ pc = "back"
    /\ NoRepeat(cells0)
    /\ cells # cells0
    /\ Len(stack) >= 2
\* the cell values on entry of the invocation at depth k + 1: the grid solve
\* was called on, with the digits that the k invocations above it have placed
PathCells(k) ==
    [p \in Pos |->
        IF \E i \in 1..k : <<stack[i].row, stack[i].col>> = p
        THEN stack[CHOOSE i \in 1..k : <<stack[i].row, stack[i].col>> = p].num
        ELSE cells0[p]]

\* C17: an invocation of solve_recursive that returns false leaves the cell
\* values and the solver's possibility map as they were when it started,
\* also after an update_possibilities that failed half-way; every digit of
\* its loop is tried from that same state
InvocationRestores ==
    [][/\ (pc = "call" /\ pc' = "ret" /\ ~ret') => (cells' = cells /\ poss' = poss)
       /\ pc = "loop" =>
             /\ poss = Top.old_poss
             /\ cells = PathCells(Len(stack) - 1)
             /\ (pc' = "ret" => (cells' = cells /\ poss' = poss /\ ~ret'))]_vars

\* the only invocation made has returned false within the budget: every
\* digit of its loop ended in a failed update_possibilities
InvocationRestoresWitness ==
    /\ pc = "ret"
    /\ ~ret
    /\ steps = 1
    /\ steps <= max_steps
    /\ poss # EmptyMap

\* C18: find_most_constrained_cell answers DeadEnd whenever some entry of the
\* map is an empty list, in whatever order the entries are visited (the
\* invocation then returns false without choosing a cell); otherwise, when
\* the map has an entry, it answers a cell whose list is among the shortest,
\* with that cell's list; it answers NoEmptyCells only for a map without
\* entries.
MostConstrainedChoice ==
    [][(pc = "call" /\ ~BudgetExceeded(steps + 1)) =>
          IF \E p \in DOMAIN poss : poss[p] = {}
          THEN pc' = "ret" /\ ~ret' /\ stack' = stack
          ELSE IF DOMAIN poss # {}
          THEN /\ pc' = "loop"
               /\ Len(stack') = Len(stack) + 1
               /\ LET frame == stack'[Len(stack')]
                      chosen == <<frame.row, frame.col>>
                  IN /\ chosen \in DOMAIN poss
                     /\ frame.candidates = poss[chosen]
                     /\ \A q \in DOMAIN poss :
                           Cardinality(poss[chosen]) <= Cardinality(poss[q])
          ELSE /\ pc' = "ret"
               /\ stack' = stack
               /\ ret' = validate_solution(cells, variants)]_vars

\* an invocation has answered false on a map that holds an empty list beside
\* non-empty ones
MostConstrainedChoiceWitness ==
    /\ pc = "ret"
    /\ ~ret
    /\ ~BudgetExceeded(steps)
    /\ \E p, q \in DOMAIN poss : poss[p] = {} /\ poss[q] # {}

\* map b has the keys of map a and no digit that a does not have
Narrows(a, b) ==
    /\ DOMAIN b = DOMAIN a
    /\ \A p \in DOMAIN a : b[p] \subseteq a[p]

\* C19: each of apply_naked_subsets, apply_pointing_pairs and
\* apply_hidden_pairs only removes digits from candidate lists: the map after
\* the pass has the keys of the map before it, and no list has a digit it
\* did not have.
EachPassOnlyRemoves ==
    query.op \in Passes => Narrows(query.map, poss)

\* apply_hidden_pairs has removed a digit
EachPassOnlyRemovesWitness ==
    /\ query.op = "apply_hidden_pairs"
    /\ poss # query.map

\* the empty cells of unit u in map m
UnitKeys(m, u) == UnitCells(u) \cap DOMAIN m

\* the digits the cells of S admit in map m
UnionOf(m, S) == UNION {m[p] : p \in S}

\* the sets of 2, 3 or 4 cells among `among` whose lists in m have as many
\* digits together as the set has cells
SetsOf(m, among) ==
    {S \in SUBSET among :
        /\ Cardinality(S) \in 2..4
        /\ Cardinality(UnionOf(m, S)) = Cardinality(S)}

\* C20 as stated: after apply_naked_subsets, for every unit and every set S
\* of 2, 3 or 4 empty cells of the unit whose lists at the start of the pass
\* have a union of exactly |S| digits (a cell of S may have a single
\* candidate), no other cell of the unit keeps a digit of that union and
\* the cells of S keep their candidates.
NakedSubsetsComplete ==
    query.op = "apply_naked_subsets" =>
        \A u \in 1..27 :
           \A S \in SetsOf(query.map, UnitKeys(query.map, u)) :
              /\ \A q \in UnitKeys(query.map, u) \ S :
                    poss[q] \cap UnionOf(query.map, S) = {}
              /\ \A p \in S : poss[p] = query.map[p]

\* what holds of unit u when the pass reaches it with map m, leaves it with
\* map `after` and ends with map `final`
NakedUnitHolds(m, after, final, u) ==
    LET found == SetsOf(m, {p \in UnitKeys(m, u) : Cardinality(m[p]) \in 2..4})
    IN /\ \A S \in found :
             \A q \in UnitKeys(m, u) \ S : final[q] \cap UnionOf(m, S) = {}
       /\ Cardinality(found) = 1 =>
             \A S \in found : \A p \in S : after[p] = m[p]

RECURSIVE NakedHoldsFrom(_, _, _)
NakedHoldsFrom(m, u, final) ==
    \/ u > 27
    \/ \A after \in {apply_naked_subsets_to_unit(m, UnitCells(u))} :
          /\ NakedUnitHolds(m, after, final, u)
          /\ NakedHoldsFrom(after, u + 1, final)

\* C20 as amended: the units are taken in the order rows, columns, boxes;
\* for every unit and every set S of 2, 3 or 4 cells of it that each have 2
\* to 4 candidates when the pass reaches the unit and whose lists then have
\* a union of exactly |S| digits, no other cell of the unit keeps a digit of
\* that union once the pass is over; and when S is the only such set of the
\* unit, its cells leave the unit's turn with the candidates they entered
\* it with.
NakedSubsetsOnSnapshot ==
    query.op = "apply_naked_subsets" => NakedHoldsFrom(query.map, 1, poss)

\* the pass met a pair in row 0 and removed a digit of it from another cell
\* of the row
NakedSubsetsOnSnapshotWitness ==
    /\ query.op = "apply_naked_subsets"
    /\ \E S \in SetsOf(query.map, {p \in UnitKeys(query.map, 1) :
                                       Cardinality(query.map[p]) \in 2..4}) :
       \E q \in UnitKeys(query.map, 1) \ S :
          /\ query.map[q] \cap UnionOf(query.map, S) # {}
          /\ poss[q] \cap UnionOf(query.map, S) = {}

\* the cells of unit u that admit some digit of combination C in map m
CellsWith(m, u, C) == {p \in UnitKeys(m, u) : m[p] \cap C # {}}

\* exactly |C| cells of unit u admit some digit of C, and each admits all of C
Qualifies(m, u, C) ==
    /\ Cardinality(CellsWith(m, u, C)) = Cardinality(C)
    /\ \A p \in CellsWith(m, u, C) : C \subseteq m[p]

\* the combinations of 2 digits, then those of 3, in the order of the pass
DigitCombos == CombSeq(1..9, 2) \o CombSeq(1..9, 3)

\* the combinations of 2 and then of 3 of the digits that unit u admits in
\* map m, in the order of the pass; a combination with a digit that the
\* unit does not admit cannot qualify
UnitCombos(m, u) ==
    CombSeq(UnionOf(m, UnitKeys(m, u)), 2) \o CombSeq(UnionOf(m, UnitKeys(m, u)), 3)

\* from combination i of `combos` on, with the map m that the loop has
\* reached in unit u: a combination that qualifies as it is tested confines
\* its cells in the map `final`
RECURSIVE HiddenCombosHold(_, _, _, _, _)
HiddenCombosHold(m, u, combos, i, final) ==
    \/ i > Len(combos)
    \/ m = EmptyMap
    \/ /\ Qualifies(m, u, combos[i]) =>
             \A p \in CellsWith(m, u, combos[i]) : final[p] \subseteq combos[i]
       /\ \A next \in {HiddenStep(m, UnitCells(u), combos[i])} :
             HiddenCombosHold(next, u, combos, i + 1, final)

RECURSIVE HiddenHoldsFrom(_, _, _)
HiddenHoldsFrom(m, u, final) ==
    \/ u > 27
    \/ m = EmptyMap
    \/ /\ HiddenCombosHold(m, u, UnitCombos(m, u), 1, final)
       /\ \A after \in {apply_hidden_subsets_to_unit(
                             apply_hidden_subsets_to_unit(m, UnitCells(u), 2),
                             UnitCells(u), 3)} :
             HiddenHoldsFrom(after, u + 1, final)

Admitting(m, b, d) == {p \in BoxCells(b) \cap DOMAIN m : d \in m[p]}

\* the cells of A are some, and all in one row (i = 1) or one column (i = 2)
InOneLine(A, i) == A # {} /\ \A p, q \in A : p[i] = q[i]

\* p lies in the row (i = 1) or the column (i = 2) of a cell of A
OnLineOf(p, A, i) == \E a \in A : p[i] = a[i]

\* the effect of box b and digit d as C22 states it, from map m to map
\* `after`: along the line, d is gone outside the box, the cells of the box
\* that admitted d admit it, and the cells outside the box and off the line
\* are as they were
PointingAsStated(m, after, b, d) ==
    \A i \in 1..2 :
       InOneLine(Admitting(m, b, d), i) =>
          /\ \A p \in DOMAIN m \ BoxCells(b) :
                OnLineOf(p, Admitting(m, b, d), i) => d \notin after[p]
          /\ \A p \in Admitting(m, b, d) : d \in after[p]
          /\ \A p \in DOMAIN m \ BoxCells(b) :
                ~OnLineOf(p, Admitting(m, b, d), i) => after[p] = m[p]

\* the effect of box b and digit d as amended: a cell outside the box is
\* changed only on a line that the cells admitting d share, row or column
PointingAsAmended(m, after, b, d) ==
    /\ \A i \in 1..2 :
          InOneLine(Admitting(m, b, d), i) =>
             \A p \in DOMAIN m \ BoxCells(b) :
                OnLineOf(p, Admitting(m, b, d), i) => d \notin after[p]
    /\ \A p \in DOMAIN m \cap BoxCells(b) : after[p] = m[p]
    /\ \A p \in DOMAIN m \ BoxCells(b) :
          after[p] # m[p] =>
             \E i \in 1..2 : /\ InOneLine(Admitting(m, b, d), i)
                             /\ OnLineOf(p, Admitting(m, b, d), i)

\* the map after the boxes b..8 have been taken for digit d
RECURSIVE PointingBoxes(_, _, _)
PointingBoxes(m, d, b) ==
    IF b > 8 \/ m = EmptyMap THEN m
    ELSE PointingBoxes(PointingStep(m, d, BoxCells(b)), d, b + 1)

\* every (digit, box) step from (d, b) on has its effect, as stated or as
\* amended
RECURSIVE PointingBoxesHold(_, _, _, _)
PointingBoxesHold(m, d, b, stated) ==
    \/ b > 8
    \/ m = EmptyMap
    \/ \A after \in {PointingStep(m, d, BoxCells(b))} :
          /\ IF stated THEN PointingAsStated(m, after, b, d)
                       ELSE PointingAsAmended(m, after, b, d)
          /\ PointingBoxesHold(after, d, b + 1, stated)

\* every step from digit d on has its effect, and the steps end with the
\* map `final`
RECURSIVE PointingHoldsFrom(_, _, _, _)
PointingHoldsFrom(m, d, stated, final) ==
    IF d > 9 \/ m = EmptyMap THEN m = final
    ELSE /\ PointingBoxesHold(m, d, 0, stated)
         /\ \A after \in {PointingBoxes(m, d, 0)} :
               PointingHoldsFrom(after, d + 1, stated, final)

\* C22 as stated: in apply_pointing_pairs, for every box and digit d such
\* that all cells of the box that admit d lie in one row (resp. column), d is
\* removed from every cell of that row (resp. column) outside the box, the
\* cells of the box that admitted d still admit it, and the cells in other
\* rows (resp. columns) outside the box are not changed by that box.
PointingFrame ==
    query.op = "apply_pointing_pairs" => PointingHoldsFrom(query.map, 1, TRUE, poss)

\* C22 as amended: for every box and digit d, taken digit by digit and box
\* by box, such that all cells of the box that admit d lie in one row (resp.
\* column) when the box is taken, d is removed from every cell of that row
\* (resp. column) outside the box; that box changes no cell of the box, and
\* it changes a cell outside the box only on a row or a column that the
\* cells admitting d share.
PointingFrameBothLines ==
    query.op = "apply_pointing_pairs" => PointingHoldsFrom(query.map, 1, FALSE, poss)

\* a single cell of box 3 admitted a digit and the pass removed it from a
\* cell of its column in box 0
PointingFrameBothLinesWitness ==
    /\ query.op = "apply_pointing_pairs"
    /\ \E d \in 1..9 :
          /\ Admitting(query.map, 3, d) = {<<4, 0>>}
          /\ d \in query.map[<<0, 0>>]
          /\ d \notin poss[<<0, 0>>]

\* the depth of nesting of solve_recursive: the invocations that are in
\* their loop, and the one that is being entered or is returning
Depth == Len(stack) + (IF pc \in {"call", "ret"} THEN 1 ELSE 0)

\* an invocation is entered on a grid with one more assigned cell for each
\* invocation above it, and the nesting is no deeper than the empty cells
\* that solve found, plus one
NestingBounded ==
    /\ pc = "call" =>
          Cardinality(Empties(cells)) = Cardinality(Empties(cells0)) - Len(stack)
    /\ pc \in {"call", "loop", "back", "ret"} =>
          Depth <= Cardinality(Empties(cells0)) + 1

\* every branch of an invocation fills the cell the invocation chose, which
\* is empty, with a candidate that no earlier branch has tried, and touches
\* no other cell
BranchesDiffer ==
    (pc = "loop" /\ pc' \in {"call", "back"}) =>
        /\ cells[<<Top.row, Top.col>>] = 0
        /\ cells'[<<Top.row, Top.col>>] \in Top.rest
        /\ cells'[<<Top.row, Top.col>>] \notin Top'.rest
        /\ Top'.rest \subseteq Top.rest
        /\ \A p \in Pos \ {<<Top.row, Top.col>>} : cells'[p] = cells[p]

\* C23: solve always terminates: every nested invocation of solve_recursive
\* runs on a grid with exactly one more assigned cell than its caller,
\* sibling branches place different digits in the same cell, and the nesting
\* depth never exceeds the number of empty cells at entry plus one.
SolveTerminates ==
    /\ []NestingBounded
    /\ [][BranchesDiffer]_vars
    /\ <>(pc = "done")

\* the deepest nesting: an invocation is entered with every cell filled
SolveTerminatesWitness ==
    /\ pc = "call"
    /\ Len(stack) >= 2
    /\ Len(stack) = Cardinality(Empties(cells0))

\* the call set_cell(p[1], p[2], value) is the step being taken
IsSetCell(p, value) ==
    /\ pc = "grid"
    /\ calls' = calls + 1
    /\ cells' = set_cell(cells, gposs, variants, p[1], p[2], value).cells
    /\ gposs' = set_cell(cells, gposs, variants, p[1], p[2], value).possibilities

Constrained(p) == \E i \in 1..Len(variants) : p \in constrained_cells(variants[i])

\* C24: set_cell(r, c, v) with v in 1..9 sets cell (r,c) to v, changes no
\* other cell value, removes v from the stored candidates of every other cell
\* of row r, column c and the box, and, when no variant constrains (r,c),
\* leaves the candidates of the cells outside the three units unchanged.
SetCellFrame ==
    [][\A p \in GridCells, v \in GridDigits \ {0} :
          IsSetCell(p, v) =>
             /\ cells' = [cells EXCEPT ![p] = v]
             /\ DOMAIN gposs' = DOMAIN gposs
             /\ \A q \in Peers(p) :
                   /\ v \notin gposs'[q]
                   /\ gposs'[q] \subseteq gposs[q]
                   /\ ~Constrained(p) => gposs'[q] = gposs[q] \ {v}
             /\ ~Constrained(p) =>
                   \A q \in Pos \ (Peers(p) \cup {p}) : gposs'[q] = gposs[q]]_vars

\* a second digit has been set, and the peers of its cell had lost the first
SetCellFrameWitness ==
    /\ pc = "grid"
    /\ calls = 2
    /\ variants = << >>
    /\ cells[<<0, 0>>] = 1
    /\ cells[<<1, 1>>] = 2
    /\ gposs[<<0, 1>>] = (1..9) \ {1, 2}
    /\ gposs[<<0, 4>>] = (1..9) \ {1}
    /\ gposs[<<4, 4>>] = 1..9

\* set_cell(p, v) on an empty cell of the empty grid is the last call made
JustSet(p) ==
    /\ calls = 1
    /\ cells[p] # 0
    /\ gposs = set_cell(cells0, gposs0, variants, p[1], p[2], cells[p]).possibilities

ToldThermometer == pc = "told" /\ query.op = "Thermometer"

\* the index of the thermometer, from 0, and the empty and known indices
ThermoIdx == 0..(TestThermometer.length - 1)

ThermoVal(i) == cells[ThermoCells[i + 1]]

ThermoEmpty == {i \in ThermoIdx : ThermoVal(i) = 0}

ThermoKnown == ThermoIdx \ ThermoEmpty

MaxOf(S) == CHOOSE x \in S : \A y \in S : y <= x

\* the bounds of the claim, in the integers
Lower(i) == MaxOf({i + 1} \cup {ThermoVal(j) + (i - j) : j \in {x \in ThermoKnown : x < i}})

Upper(i) ==
    Min({9 - ((TestThermometer.length - 1) - i)}
            \cup {ThermoVal(j) - (j - i) : j \in {x \in ThermoKnown : x > i}})

\* C26: Thermometer::get_possibilities maps each assigned cell to the
\* singleton of its value and each empty index i to exactly lower..upper,
\* with lower the greatest of i+1 and v_j+(i-j) over all known j < i and
\* upper the least of 9-(L-1-i) and v_j-(j-i) over all known j > i, and
\* returns a contradiction if lower > upper for some empty index.
ThermometerBounds ==
    ToldThermometer =>
        IF \E i \in ThermoEmpty : Lower(i) > Upper(i)
        THEN ~query.answer /\ query.value = 0
        ELSE /\ query.answer
             /\ query.map = [p \in Range(ThermoCells) |->
                               LET i == CHOOSE x \in ThermoIdx : ThermoCells[x + 1] = p
                               IN IF cells[p] # 0 THEN {cells[p]} ELSE Lower(i)..Upper(i)]

\* one cell of the dot is assigned and the call on dot i has returned
ToldDot(op, i) ==
    /\ pc = "told"
    /\ query.op = op
    /\ query.variant = i
    /\ Cardinality({p \in Range(DotCells) : cells[p] # 0}) = 1

DotKnown == CHOOSE p \in Range(DotCells) : cells[p] # 0

DotOther == CHOOSE p \in Range(DotCells) : cells[p] = 0

\* the relation of each dot between the digit d and the assigned digit k
White(d, k) == d - k = 1 \/ k - d = 1

Black(d, k) == d = 2 * k \/ k = 2 * d

X(d, k) == d + k = 10

V(d, k) == d + k = 5

\* the call returned the known cell with [k] and the other with `digits`,
\* or a contradiction when `digits` is empty
DotAnswer(digits) ==
    IF digits = {} THEN ~query.answer /\ query.value = 0
    ELSE /\ query.answer
         /\ query.map = [p \in Range(DotCells) |->
                           IF p = DotKnown THEN {cells[DotKnown]} ELSE digits]

\* C27 as stated: with exactly one cell assigned k, the empty cell gets
\* exactly the digits d of 1..9 in the dot's relation with k, and the call
\* reports a contradiction exactly when there is none.
DotRelation ==
    /\ ToldDot("KropkiDot", 1) => DotAnswer({d \in 1..9 : White(d, cells[DotKnown])})
    /\ ToldDot("KropkiDot", 2) => DotAnswer({d \in 1..9 : Black(d, cells[DotKnown])})
    /\ ToldDot("XVDot", 1) => DotAnswer({d \in 1..9 : X(d, cells[DotKnown])})
    /\ ToldDot("XVDot", 2) => DotAnswer({d \in 1..9 : V(d, cells[DotKnown])})

\* C27: with exactly one cell assigned k, the assigned cell gets [k] and the
\* empty cell exactly the digits d of 1..9 other than k in the dot's
\* relation with k; the call reports a contradiction exactly when there is
\* none, which for the X dot includes k = 5.
DotRelationOtherDigit ==
    /\ ToldDot("KropkiDot", 1) =>
          DotAnswer({d \in (1..9) \ {cells[DotKnown]} : White(d, cells[DotKnown])})
    /\ ToldDot("KropkiDot", 2) =>
          DotAnswer({d \in (1..9) \ {cells[DotKnown]} : Black(d, cells[DotKnown])})
    /\ ToldDot("XVDot", 1) =>
          DotAnswer({d \in (1..9) \ {cells[DotKnown]} : X(d, cells[DotKnown])})
    /\ ToldDot("XVDot", 2) =>
          DotAnswer({d \in (1..9) \ {cells[DotKnown]} : V(d, cells[DotKnown])})

\* the X dot with 5 on its second cell has reported a contradiction on its
\* first cell
DotRelationOtherDigitWitness ==
    /\ ToldDot("XVDot", 1)
    /\ cells[DotCells[2]] = 5
    /\ ~query.answer
    /\ <<query.row, query.col>> = DotCells[1]

\* the empty indices for which the nearest known index after them, k with
\* value v, leaves no room: v <= k - i
NoRoom ==
    {i \in ThermoEmpty :
        \E k \in ThermoKnown :
           /\ i < k
           /\ \A j \in ThermoKnown : i < j => k <= j
           /\ ThermoVal(k) <= k - i}

\* C29: the u8 arithmetic of Thermometer::get_possibilities neither wraps
\* nor aborts: when a known value v at index k leaves no room for an earlier
\* empty index i (v <= k - i), the call returns NoPossibilities for that
\* cell, the first such cell unless an earlier one has no candidate.
ThermometerNoUnderflow ==
    (ToldThermometer /\ NoRoom # {}) =>
        /\ query.value = 0
        /\ ~query.answer
        /\ \E i \in 0..Min(NoRoom) :
              /\ <<query.row, query.col>> = ThermoCells[i + 1]
              /\ i \in ThermoEmpty
              /\ Lower(i) > Upper(i)

\* what an invocation that is entered within its budget does next: with no
\* empty cell it reports NoEmptyCells and returns the validation of the grid;
\* with an empty cell it branches on an empty cell or meets a dead end
EntryOutcome ==
    (pc = "call" /\ ~BudgetExceeded(steps + 1)) =>
        IF Empties(cells) = {}
        THEN /\ pc' = "ret"
             /\ stack' = stack
             /\ ret' = validate_solution(cells, variants)
        ELSE \/ /\ pc' = "loop"
                /\ cells[<<Top'.row, Top'.col>>] = 0
             \/ /\ pc' = "ret"
                /\ ~ret'
                /\ \E p \in DOMAIN poss : poss[p] = {}

\* C28: at every entry to solve_recursive the keys of the solver's map are
\* exactly the empty cells of the grid, so NoEmptyCells is reported exactly
\* when the grid is fully assigned and a cell chosen for branching is empty.
KeysAreEmptyCells ==
    /\ [](pc = "call" => DOMAIN poss = Empties(cells))
    /\ [][EntryOutcome]_vars

\* a nested invocation is entered on a grid that still has empty cells
KeysAreEmptyCellsWitness ==
    /\ pc = "call"
    /\ Len(stack) >= 2
    /\ Empties(cells) # {}
    /\ DOMAIN poss = Empties(cells)
    /\ \A i \in 1..Len(stack) : <<stack[i].row, stack[i].col>> \notin DOMAIN poss

\* a task inside a handler holds the guard its handler took: the write guard
\* alone, or a read guard without any writer
GuardHeld ==
    \A r \in Requests :
       /\ query.at[r] \in {"solving", "validating", "setting"} =>
             query.writers = {r} /\ query.readers = {}
       /\ query.at[r] = "reading" => r \in query.readers /\ query.writers = {}
       /\ query.at[r] = "setting" => cells = query.seen[r]
       /\ (pc # "idle") => \E w \in query.writers : Handler[w] = "solve"

\* the grid a read returns is the grid as the last writer left it, and no
\* solver exists at that moment
ReadsSettledGrid ==
    \A r \in Requests :
       (Handler[r] = "sudoku" /\ query.at[r] = "reading" /\ query'.at[r] = "done") =>
          /\ query'.seen[r] = cells0
          /\ pc = "idle"

\* the set is applied to the grid the move was validated against
SetsValidatedGrid ==
    \A r \in Requests :
       (Handler[r] = "set_cell" /\ query.at[r] = "setting" /\ query'.at[r] = "done") =>
          /\ cells = query.seen[r]
          /\ cells' = [cells EXCEPT ![<<query.args.row, query.args.col>>] = query.args.value]
          /\ is_valid_move(cells, variants, query.args.row, query.args.col,
                           query.args.value)

\* C30: solve_handler and set_cell_handler hold the write lock for their
\* whole validate-and-mutate sequence and sudoku_handler holds the read lock,
\* so no read returns a grid with a speculative placement of a solve in
\* progress, and no set_cell is validated against a grid that another
\* request changes before the set is applied.
HandlersAtomic ==
    /\ []GuardHeld
    /\ [][ReadsSettledGrid /\ SetsValidatedGrid]_vars

\* solve holds a speculative placement while the read and the set_cell
\* requests await the lock
HandlersAtomicWitness ==
    /\ pc = "call"
    /\ stack # << >>
    /\ cells # cells0
    /\ query.writers = {1}
    /\ query.at[2] = "waiting"
    /\ query.at[3] = "waiting"

====
